---- MODULE Spec2Model ----
(***************************************************************************)
(* Model of the relative-time plugins of obsidian-relative-time:           *)
(*   - the RFC 3339 plugin with date-only support  (src/unnamed/part_000)  *)
(*   - the earlier RFC 3339 plugin                 (src/main.ts 1-189)     *)
(*   - the Discord epoch-tag plugin                (src/main.ts 191-371)   *)
(* Text is a sequence of one-character strings; offsets are zero-based as  *)
(* in the source, so the character at offset i of text is text[i + 1].     *)
(***************************************************************************)
EXTENDS Integers, Sequences, FiniteSets, TLC

(***************************************************************************)
(* Characters and the text the editor can hold                             *)
(***************************************************************************)
Digit == {"0", "1", "2", "3", "4", "5", "6", "7", "8", "9"}

DigitVal(c) ==
  CASE c = "0" -> 0 [] c = "1" -> 1 [] c = "2" -> 2 [] c = "3" -> 3
    [] c = "4" -> 4 [] c = "5" -> 5 [] c = "6" -> 6 [] c = "7" -> 7
    [] c = "8" -> 8 [] c = "9" -> 9

\* The inline-code delimiter (U+0060, written BT in the comments below); the
\* string syntax cannot hold that character, so it has a name of its own.
Backtick == "BACKTICK"

\* text.charAt(i), with "" past either end
CharAt(text, i) == IF i >= 0 /\ i < Len(text) THEN text[i + 1] ELSE ""

\* \d{n} at offset i
DigitsN(text, i, n) == \A k \in 0 .. (n - 1) : CharAt(text, i + k) \in Digit

\* text.slice(a, b)
Slice(text, a, b) == SubSeq(text, a + 1, b)

RECURSIVE Concat(_)
Concat(ss) == IF ss = <<>> THEN <<>> ELSE Head(ss) \o Concat(Tail(ss))

\* number of consecutive digits starting at offset i (the greedy \d+ / \d*)
RECURSIVE DigitRun(_, _)
DigitRun(text, i) == IF CharAt(text, i) \in Digit THEN 1 + DigitRun(text, i + 1) ELSE 0

NoMatch == [index |-> -1]

(***************************************************************************)
(* Token matchers: the regular expressions of the three plugins            *)
(***************************************************************************)
\* rfcDatePart  \d{4}-\d{2}-\d{2} ; the offset after it, or -1
DatePartEnd(text, i) ==
  IF /\ DigitsN(text, i, 4)
     /\ CharAt(text, i + 4) = "-"
     /\ DigitsN(text, i + 5, 2)
     /\ CharAt(text, i + 7) = "-"
     /\ DigitsN(text, i + 8, 2)
  THEN i + 10 ELSE -1

\* (?:Z|[+-]\d{2}:\d{2}) ; the offset after it, or -1
ZoneEnd(text, i) ==
  IF CharAt(text, i) = "Z" THEN i + 1
  ELSE IF /\ CharAt(text, i) \in {"+", "-"}
          /\ DigitsN(text, i + 1, 2)
          /\ CharAt(text, i + 3) = ":"
          /\ DigitsN(text, i + 4, 2)
       THEN i + 6 ELSE -1

\* The offsets at which the zone may start after :\d{2}(?:\.\d+)? has matched at
\* offset i, in the order the backtracking matcher tries them (longest fraction
\* first); <<>> when the seconds do not match at i.
SecondsEnds(text, i) ==
  IF CharAt(text, i) = ":" /\ DigitsN(text, i + 1, 2)
  THEN LET run == IF CharAt(text, i + 3) = "." THEN DigitRun(text, i + 4) ELSE 0
       IN  [k \in 1 .. run |-> i + 4 + (run - k + 1)] \o <<i + 3>>
  ELSE <<>>

\* what ends a token: BT in the editor, the end of the text ("", the $ of the
\* reading view expressions) ; the characters it takes
Width(closer) == IF closer = "" THEN 0 ELSE 1

\* first element e of the sequence ends with ZoneEnd(e) followed by closer, or -1
RECURSIVE FirstClosing(_, _, _)
FirstClosing(text, ends, closer) ==
  IF ends = <<>> THEN -1
  ELSE LET z == ZoneEnd(text, Head(ends))
       IN  IF z # -1 /\ CharAt(text, z) = closer THEN z
           ELSE FirstClosing(text, Tail(ends), closer)

\* rfcTimeAndZonePart  T\d{2}:\d{2}(?::\d{2}(?:\.\d+)?)?(?:Z|[+-]\d{2}:\d{2})
\* followed by closer ; the offset after the zone, or -1
TimeAndZoneEnd(text, i, closer) ==
  IF /\ CharAt(text, i) = "T"
     /\ DigitsN(text, i + 1, 2)
     /\ CharAt(text, i + 3) = ":"
     /\ DigitsN(text, i + 4, 2)
  THEN FirstClosing(text, SecondsEnds(text, i + 6) \o <<i + 6>>, closer)
  ELSE -1

\* (rfcDatePart)(rfcTimeAndZonePart)? and closer, the date part being
\* text[start, d) and the time part ending at t (-1: none that closer follows).
\* match[0] is text[index, end), match[1] the date part, match[2] the time part
\* (<<>> stands for undefined).
rfcMatch(text, index, start, closer, d, t) ==
  IF t # -1
  THEN [index |-> index, end |-> t + Width(closer),
        g1 |-> Slice(text, start, d), g2 |-> Slice(text, d, t)]
  ELSE IF CharAt(text, d) = closer
       THEN [index |-> index, end |-> d + Width(closer),
             g1 |-> Slice(text, start, d), g2 |-> <<>>]
       ELSE NoMatch

\* the same, the date part ending at d (-1: no date part at start)
rfcMatchAfterDate(text, index, start, closer, d) ==
  IF d = -1 THEN NoMatch
  ELSE rfcMatch(text, index, start, closer, d, TimeAndZoneEnd(text, d, closer))

\* editorRegex, one attempt at offset i: BT(rfcDatePart)(rfcTimeAndZonePart)?BT
editorRegexAt(text, i) ==
  IF CharAt(text, i) # Backtick THEN NoMatch
  ELSE rfcMatchAfterDate(text, i, i + 1, Backtick, DatePartEnd(text, i + 1))

\* readingViewRegex: ^(rfcDatePart)(rfcTimeAndZonePart)?$
readingViewRegexMatch(text) ==
  rfcMatchAfterDate(text, 0, 0, "", DatePartEnd(text, 0))

\* the time of rfc3339PatternSrc after a date part that ends at d
rfc3339TimeEnd(text, d, closer) ==
  IF /\ d # -1
     /\ CharAt(text, d) = "T"
     /\ DigitsN(text, d + 1, 2)
     /\ CharAt(text, d + 3) = ":"
     /\ DigitsN(text, d + 4, 2)
  THEN FirstClosing(text, SecondsEnds(text, d + 6), closer)
  ELSE -1

\* rfc3339PatternSrc of the earlier plugin, followed by closer:
\* \d{4}-\d{2}-\d{2}T\d{2}:\d{2}:\d{2}(?:\.\d+)?(?:Z|[+-]\d{2}:\d{2})
rfc3339PatternEnd(text, i, closer) == rfc3339TimeEnd(text, DatePartEnd(text, i), closer)

\* (rfc3339PatternSrc) and closer, the pattern being text[start, e)
rfc3339Match(text, index, start, closer, e) ==
  IF e = -1 THEN NoMatch
  ELSE [index |-> index, end |-> e + Width(closer),
        g1 |-> Slice(text, start, e), g2 |-> <<>>]

\* editorRfc3339Regex, one attempt at offset i: BT(rfc3339PatternSrc)BT
editorRfc3339RegexAt(text, i) ==
  IF CharAt(text, i) # Backtick THEN NoMatch
  ELSE rfc3339Match(text, i, i + 1, Backtick, rfc3339PatternEnd(text, i + 1, Backtick))

\* readingViewRfc3339Regex: ^(rfc3339PatternSrc)$
readingViewRfc3339RegexMatch(text) ==
  rfc3339Match(text, 0, 0, "", rfc3339PatternEnd(text, 0, ""))

\* [tTdDfFR]
StyleFlag == {"t", "T", "d", "D", "f", "F", "R"}

\* the tag with the style flag made obligatory: <t:(\d+):[tTdDfFR]>
TimestampTagEndFlagged(text, i, closer) ==
  LET e == i + 3 + DigitRun(text, i + 3)
  IN  IF /\ CharAt(text, i) = "<"
         /\ CharAt(text, i + 1) = "t"
         /\ CharAt(text, i + 2) = ":"
         /\ e > i + 3
         /\ CharAt(text, e) = ":"
         /\ CharAt(text, e + 1) \in StyleFlag
         /\ CharAt(text, e + 2) = ">"
         /\ CharAt(text, e + 3) = closer
      THEN <<e, e + 3>> ELSE <<-1, -1>>

\* <t:(\d+)(?::[tTdDfFR])?> at offset i followed by closer: the offsets
\* <<after the digits, after the ">">>, or <<-1, -1>>
TimestampTagEnd(text, i, closer) ==
  LET e == i + 3 + DigitRun(text, i + 3)
      f == IF CharAt(text, e) = ":" /\ CharAt(text, e + 1) \in StyleFlag
           THEN e + 2 ELSE e
  IN  IF /\ CharAt(text, i) = "<"
         /\ CharAt(text, i + 1) = "t"
         /\ CharAt(text, i + 2) = ":"
         /\ e > i + 3
         /\ CharAt(text, f) = ">"
         /\ CharAt(text, f + 1) = closer
      THEN <<e, f + 1>> ELSE <<-1, -1>>

\* (<t:(\d+)(?::[tTdDfFR])?>) and closer, the tag being text[start, e[2]):
\* match[1] is the tag, match[2] the digits
timestampMatch(text, index, start, closer, e) ==
  IF e[2] = -1 THEN NoMatch
  ELSE [index |-> index, end |-> e[2] + Width(closer),
        g1 |-> Slice(text, start, e[2]), g2 |-> Slice(text, start + 3, e[1])]

\* editorTimestampRegex, one attempt at offset i: BT(<t:(\d+)(?::[tTdDfFR])?>)BT
editorTimestampRegexAt(text, i) ==
  IF CharAt(text, i) # Backtick THEN NoMatch
  ELSE timestampMatch(text, i, i + 1, Backtick, TimestampTagEnd(text, i + 1, Backtick))

\* readingViewTimestampRegex: ^<t:(\d+)(?::[tTdDfFR])?>$ ; the tag is match[0]
\* here and the digits, g2 of this record, are match[1]
readingViewTimestampRegexMatch(text) ==
  timestampMatch(text, 0, 0, "", TimestampTagEnd(text, 0, ""))

(***************************************************************************)
(* The Date of the host: a time value is [day, ms], days since 1970-01-01  *)
(* and the milliseconds into that day (UTC); NaN is the invalid Date.      *)
(***************************************************************************)
NaN == [valid |-> FALSE]

\* the text 'T00:00:00Z' that is put after a date-only string
Midnight == <<"T", "0", "0", ":", "0", "0", ":", "0", "0", "Z">>

\* the largest time value of a Date is 100,000,000 days after the epoch
MaxDateDay == 10 ^ 8

MsPerDay == 24 * 60 * 60 * 1000

SecPerDay == 24 * 60 * 60

\* the decimal number text[i, i + n)
RECURSIVE Num(_, _, _)
Num(text, i, n) ==
  IF n = 0 THEN 0 ELSE Num(text, i, n - 1) * 10 + DigitVal(CharAt(text, i + n - 1))

\* MakeDay: days from 1970-01-01 to the civil date y-m-d (a day past the end of
\* the month runs on into the next month)
DaysFromCivil(y, m, d) ==
  LET yy  == IF m <= 2 THEN y - 1 ELSE y
      era == yy \div 400
      yoe == yy - era * 400
      mp  == IF m > 2 THEN m - 3 ELSE m + 9
      doy == (153 * mp + 2) \div 5 + d - 1
      doe == yoe * 365 + yoe \div 4 - yoe \div 100 + doy
  IN  era * 146097 + doe - 719468

\* the civil date of a day number
CivilFromDays(z) ==
  LET zz  == z + 719468
      era == zz \div 146097
      doe == zz - era * 146097
      yoe == (doe - doe \div 1460 + doe \div 36524 - doe \div 146096) \div 365
      doy == doe - (365 * yoe + yoe \div 4 - yoe \div 100)
      mp  == (5 * doy + 2) \div 153
      d   == doy - (153 * mp + 2) \div 5 + 1
      m   == IF mp < 10 THEN mp + 3 ELSE mp - 9
      y   == yoe + era * 400 + (IF m <= 2 THEN 1 ELSE 0)
  IN  [year |-> y, month |-> m, day |-> d]

\* new Date(s) for s of the shape YYYY-MM-DDTHH:MM[:SS[.f+]](Z|+-HH:MM), the
\* only shape the plugins hand to it
DateParse(s) ==
  LET y      == Num(s, 0, 4)
      mo     == Num(s, 5, 2)
      d      == Num(s, 8, 2)
      h      == Num(s, 11, 2)
      mi     == Num(s, 14, 2)
      hasSec == CharAt(s, 16) = ":"
      sec    == IF hasSec THEN Num(s, 17, 2) ELSE 0
      run    == IF hasSec /\ CharAt(s, 19) = "." THEN DigitRun(s, 20) ELSE 0
      frac   == IF run = 0 THEN 0
                ELSE IF run = 1 THEN Num(s, 20, 1) * 100
                ELSE IF run = 2 THEN Num(s, 20, 2) * 10
                ELSE Num(s, 20, 3)
      z      == IF ~hasSec THEN 16 ELSE IF run = 0 THEN 19 ELSE 20 + run
      utc    == CharAt(s, z) = "Z"
      zh     == IF utc THEN 0 ELSE Num(s, z + 1, 2)
      zm     == IF utc THEN 0 ELSE Num(s, z + 4, 2)
      sign   == IF CharAt(s, z) = "-" THEN -1 ELSE 1
      ok     == /\ mo \in 1 .. 12
                /\ d \in 1 .. 31
                /\ \/ h <= 23
                   \/ h = 24 /\ mi = 0 /\ sec = 0 /\ frac = 0
                /\ mi <= 59
                /\ sec <= 59
                /\ zh <= 23
                /\ zm <= 59
      total  == ((h * 60 + mi) * 60 + sec) * 1000 + frac - sign * (zh * 60 + zm) * 60000
  IN  IF ok
      THEN [valid |-> TRUE,
            day   |-> DaysFromCivil(y, mo, d) + total \div MsPerDay,
            ms    |-> total % MsPerDay]
      ELSE NaN

\* parseInt(digits, 10): a Number n as [q, r] with n = q * 86400 + r ; q stops
\* growing one past MaxDateDay, beyond which no Date exists
RECURSIVE parseInt(_)
parseInt(digits) ==
  IF digits = <<>> THEN [q |-> 0, r |-> 0]
  ELSE LET p == parseInt(SubSeq(digits, 1, Len(digits) - 1))
           v == p.r * 10 + DigitVal(digits[Len(digits)])
           q == p.q * 10 + v \div SecPerDay
       IN  [q |-> IF q > MaxDateDay THEN MaxDateDay + 1 ELSE q, r |-> v % SecPerDay]

\* new Date(seconds * 1000)
DateFromSeconds(n) ==
  IF n.q < MaxDateDay \/ (n.q = MaxDateDay /\ n.r = 0)
  THEN [valid |-> TRUE, day |-> n.q, ms |-> n.r * 1000]
  ELSE NaN

\* isNaN(date.getTime())
isNaN(date) == ~date.valid

\* date.toISOString(): the fields of the UTC instant; an invalid Date throws
toISOString(date) ==
  IF isNaN(date) THEN [threw |-> "RangeError"]
  ELSE LET c == CivilFromDays(date.day)
       IN  [threw  |-> "none",
            year   |-> c.year, month |-> c.month, day |-> c.day,
            hour   |-> date.ms \div 3600000,
            minute |-> (date.ms \div 60000) % 60,
            second |-> (date.ms \div 1000) % 60,
            ms     |-> date.ms % 1000]

\* date.toLocaleString(undefined, options) / toLocaleDateString: the host either
\* formats the instant with the options or throws
toLocaleString(date, options, hostThrows) ==
  IF hostThrows THEN [threw |-> "RangeError"]
  ELSE [threw |-> "none", by |-> "toLocaleString",
        instant |-> <<date.day, date.ms>>, options |-> options]

\* date.toLocaleDateString(undefined, options)
toLocaleDateString(date, options, hostThrows) ==
  IF hostThrows THEN [threw |-> "RangeError"]
  ELSE [threw |-> "none", by |-> "toLocaleDateString",
        instant |-> <<date.day, date.ms>>, options |-> options]

\* date.toString(): always a string
toString(date) ==
  [threw |-> "none", by |-> "toString",
   instant |-> <<date.day, date.ms>>, options |-> [none |-> TRUE]]

(***************************************************************************)
(* RegExp.prototype.exec on a global regular expression                    *)
(***************************************************************************)
\* one attempt of the named regular expression at offset i
RegexAt(re, text, i) ==
  CASE re = "editorRegex"          -> editorRegexAt(text, i)
    [] re = "editorRfc3339Regex"   -> editorRfc3339RegexAt(text, i)
    [] re = "editorTimestampRegex" -> editorTimestampRegexAt(text, i)

\* the leftmost match of the expression at an offset >= i, or NoMatch (each of
\* the expressions starts with BT, so only those offsets are tried)
RECURSIVE FirstMatch(_, _, _)
RECURSIVE MatchOrLater(_, _, _, _)
FirstMatch(re, text, i) ==
  LET ticks == {j \in i .. Len(text) - 1 : text[j + 1] = Backtick}
  IN  IF ticks = {} THEN NoMatch
      ELSE MatchOrLater(re, text, CHOOSE j \in ticks : \A k \in ticks : j <= k,
                        RegexAt(re, text, CHOOSE j \in ticks : \A k \in ticks : j <= k))

\* m, the attempt at offset first, or the leftmost match after first
MatchOrLater(re, text, first, m) ==
  IF m # NoMatch THEN m ELSE FirstMatch(re, text, first + 1)

\* what exec returns and leaves in lastIndex for the match m: the end of the
\* match, 0 when there is none
execResult(m) ==
  IF m = NoMatch THEN [match |-> NoMatch, lastIndex |-> 0]
  ELSE [match |-> m, lastIndex |-> m.end]

\* re.exec(text) with re.lastIndex = lastIndex: the match and the new lastIndex
exec(re, text, lastIndex) ==
  execResult(IF lastIndex > Len(text) THEN NoMatch ELSE FirstMatch(re, text, lastIndex))

(***************************************************************************)
(* The editor view the host hands to the plugins                           *)
(***************************************************************************)
\* view.state.doc is a sequence of chunks of text; its whole text
DocText(doc) == Concat(doc)

\* the slice that does not stop at to: the text from from to the end of the document
sliceToEnd(doc, from, to) == Slice(DocText(doc), from, Len(DocText(doc)))

\* view.state.doc.sliceString(from, to)
sliceString(doc, from, to) == Slice(DocText(doc), from, to)

\* builder.add(from, to, Decoration.replace({widget})) of RangeSetBuilder
builderAdd(builder, from, to, widget) ==
  Append(builder, [from |-> from, to |-> to, widget |-> widget])

(***************************************************************************)
(* buildDecorations of the RFC 3339 plugin (src/unnamed/part_000)          *)
(***************************************************************************)
\* the test of the selection loop: some selection range touches [startPos, endPos]
cursorIsInside(selection, startPos, endPos) ==
  \E k \in 1 .. Len(selection) :
     selection[k].from <= endPos /\ selection[k].to >= startPos

\* the scan cursor left where the last scan put it
editorRegexKept(lastIndex) == lastIndex

\* editorRegex.lastIndex = 0
editorRegexReset(lastIndex) == 0

\* startPos with the base offset of the slice left out
startPosInSlice(from, match) == match.index

\* startPos = from + match.index
startPosOf(from, match) == from + match.index

\* endPos from the text between the delimiters alone
endPosOfInner(startPos, match) == startPos + Len(match.g1 \o match.g2)

\* endPos = startPos + fullMarkdownMatch.length
endPosOf(startPos, match) == startPos + (match.end - match.index)

\* the body of the while loop for one match: the builder after it
buildDecorationsMatch(from, selection, builder, match) ==
  LET fullDateTimeStringInsideBackticks == match.g1 \o match.g2
      isDateOnly == match.g2 = <<>>
      startPos == startPosOf(from, match)
      endPos == endPosOf(startPos, match)
      tempProcessedString ==
        IF isDateOnly THEN fullDateTimeStringInsideBackticks \o Midnight
        ELSE fullDateTimeStringInsideBackticks
      dateTest == DateParse(tempProcessedString)
  IN  IF cursorIsInside(selection, startPos, endPos) THEN builder
      ELSE IF ~isNaN(dateTest)
           THEN builderAdd(builder, startPos, endPos,
                  [type |-> "RFC3339Widget",
                   matchedDateString |-> fullDateTimeStringInsideBackticks,
                   isDateOnly |-> isDateOnly])
           ELSE builder

\* the while loop over one slice: builder and the regular expression's lastIndex
\* as they stand when exec returns null
RECURSIVE buildDecorationsScan(_, _, _, _, _)
RECURSIVE buildDecorationsWhile(_, _, _, _, _)
buildDecorationsScan(text, from, selection, builder, lastIndex) ==
  buildDecorationsWhile(text, from, selection, builder, exec("editorRegex", text, lastIndex))

\* the loop after exec returned r
buildDecorationsWhile(text, from, selection, builder, r) ==
  IF r.match = NoMatch THEN [builder |-> builder, lastIndex |-> r.lastIndex]
  ELSE buildDecorationsScan(text, from, selection,
         buildDecorationsMatch(from, selection, builder, r.match), r.lastIndex)

\* the for loop over view.visibleRanges, from range k on
RECURSIVE buildDecorationsFrom(_, _, _, _)
RECURSIVE buildDecorationsNext(_, _, _)
buildDecorationsFrom(view, k, builder, lastIndex) ==
  IF k > Len(view.visibleRanges) THEN [builder |-> builder, lastIndex |-> lastIndex]
  ELSE buildDecorationsNext(view, k,
         buildDecorationsScan(
           sliceString(view.doc, view.visibleRanges[k].from, view.visibleRanges[k].to),
           view.visibleRanges[k].from, view.selection, builder,
           editorRegexReset(lastIndex)))

\* the for loop after the scan of range k left r
buildDecorationsNext(view, k, r) == buildDecorationsFrom(view, k + 1, r.builder, r.lastIndex)

\* buildDecorations(view), called with editorRegex.lastIndex = lastIndex:
\* [builder |-> the decoration set, lastIndex |-> editorRegex.lastIndex after]
buildDecorations(view, lastIndex) == buildDecorationsFrom(view, 1, <<>>, lastIndex)

(***************************************************************************)
(* buildRFC3339TimestampDecorations of the earlier plugin (src/main.ts)    *)
(***************************************************************************)
\* editorRfc3339Regex.lastIndex = 0
editorRfc3339RegexReset(lastIndex) == 0

\* the body of the while loop for one match: the builder after it
buildRFC3339TimestampDecorationsMatch(from, selection, builder, match) ==
  LET matchStartInSlice == match.index
      rfc3339String == match.g1
      startPos == from + matchStartInSlice
      endPos == startPos + (match.end - match.index)
      cursorInside ==
        \E k \in 1 .. Len(selection) :
           selection[k].from <= endPos /\ selection[k].to >= startPos
      dateTest == DateParse(rfc3339String)
  IN  IF cursorInside THEN builder
      ELSE IF ~isNaN(dateTest)
           THEN builderAdd(builder, startPos, endPos,
                  [type |-> "RFC3339TimestampWidget", rfc3339String |-> rfc3339String])
           ELSE builder

RECURSIVE buildRFC3339TimestampDecorationsScan(_, _, _, _, _)
RECURSIVE buildRFC3339TimestampDecorationsWhile(_, _, _, _, _)
buildRFC3339TimestampDecorationsScan(text, from, selection, builder, lastIndex) ==
  buildRFC3339TimestampDecorationsWhile(text, from, selection, builder,
    exec("editorRfc3339Regex", text, lastIndex))

buildRFC3339TimestampDecorationsWhile(text, from, selection, builder, r) ==
  IF r.match = NoMatch THEN [builder |-> builder, lastIndex |-> r.lastIndex]
  ELSE buildRFC3339TimestampDecorationsScan(text, from, selection,
         buildRFC3339TimestampDecorationsMatch(from, selection, builder, r.match),
         r.lastIndex)

RECURSIVE buildRFC3339TimestampDecorationsFrom(_, _, _, _)
RECURSIVE buildRFC3339TimestampDecorationsNext(_, _, _)
buildRFC3339TimestampDecorationsFrom(view, k, builder, lastIndex) ==
  IF k > Len(view.visibleRanges) THEN [builder |-> builder, lastIndex |-> lastIndex]
  ELSE buildRFC3339TimestampDecorationsNext(view, k,
         buildRFC3339TimestampDecorationsScan(
           sliceString(view.doc, view.visibleRanges[k].from, view.visibleRanges[k].to),
           view.visibleRanges[k].from, view.selection, builder,
           editorRfc3339RegexReset(lastIndex)))

buildRFC3339TimestampDecorationsNext(view, k, r) ==
  buildRFC3339TimestampDecorationsFrom(view, k + 1, r.builder, r.lastIndex)

buildRFC3339TimestampDecorations(view, lastIndex) ==
  buildRFC3339TimestampDecorationsFrom(view, 1, <<>>, lastIndex)

(***************************************************************************)
(* buildTimestampDecorations of the epoch-tag plugin (src/main.ts)         *)
(***************************************************************************)
\* editorTimestampRegex.lastIndex = 0
editorTimestampRegexReset(lastIndex) == 0

\* the body of the while loop for one match: the selection is not read, and
\* isNaN(unixTimestamp) is false of every digit string
buildTimestampDecorationsMatch(from, builder, match) ==
  LET matchStartInSlice == match.index
      innerTimestampTag == match.g1
      unixTimestampStr == match.g2
      startPos == from + matchStartInSlice
      endPos == startPos + (match.end - match.index)
      unixTimestamp == parseInt(unixTimestampStr)
  IN  builderAdd(builder, startPos, endPos,
        [type |-> "TimestampWidget",
         fullTimestampString |-> innerTimestampTag,
         unixTimestamp |-> unixTimestamp])

RECURSIVE buildTimestampDecorationsScan(_, _, _, _)
RECURSIVE buildTimestampDecorationsWhile(_, _, _, _)
buildTimestampDecorationsScan(text, from, builder, lastIndex) ==
  buildTimestampDecorationsWhile(text, from, builder,
    exec("editorTimestampRegex", text, lastIndex))

buildTimestampDecorationsWhile(text, from, builder, r) ==
  IF r.match = NoMatch THEN [builder |-> builder, lastIndex |-> r.lastIndex]
  ELSE buildTimestampDecorationsScan(text, from,
         buildTimestampDecorationsMatch(from, builder, r.match), r.lastIndex)

RECURSIVE buildTimestampDecorationsFrom(_, _, _, _)
RECURSIVE buildTimestampDecorationsNext(_, _, _)
buildTimestampDecorationsFrom(view, k, builder, lastIndex) ==
  IF k > Len(view.visibleRanges) THEN [builder |-> builder, lastIndex |-> lastIndex]
  ELSE buildTimestampDecorationsNext(view, k,
         buildTimestampDecorationsScan(
           sliceString(view.doc, view.visibleRanges[k].from, view.visibleRanges[k].to),
           view.visibleRanges[k].from, builder,
           editorTimestampRegexReset(lastIndex)))

buildTimestampDecorationsNext(view, k, r) ==
  buildTimestampDecorationsFrom(view, k + 1, r.builder, r.lastIndex)

buildTimestampDecorations(view, lastIndex) ==
  buildTimestampDecorationsFrom(view, 1, <<>>, lastIndex)

(***************************************************************************)
(* The documents, visible ranges and selections the host can present       *)
(***************************************************************************)
\* BT2023-01-01BT : a date-only token
TokDateOnly == <<Backtick, "2", "0", "2", "3", "-", "0", "1", "-", "0", "1", Backtick>>

\* BT2023-13-45BT : fits the date grammar, names no date
TokBadDate == <<Backtick, "2", "0", "2", "3", "-", "1", "3", "-", "4", "5", Backtick>>

\* BT2023-01-01T10:00:00+01:00BT : a date-time token
TokDateTime == <<Backtick, "2", "0", "2", "3", "-", "0", "1", "-", "0", "1", "T", "1", "0", ":", "0", "0", ":", "0", "0", "+", "0", "1", ":", "0", "0", Backtick>>

\* BT<t:0:R>BT : an epoch tag with a style flag
TokEpoch == <<Backtick, "<", "t", ":", "0", ":", "R", ">", Backtick>>

\* BT<t:9999999999999>BT : an epoch tag whose seconds lie past the last Date
TokFarEpoch == <<Backtick, "<", "t", ":", "9", "9", "9", "9", "9", "9", "9", "9", "9", "9", "9", "9", "9", ">", Backtick>>

\* one character of ordinary text, with which every document starts
Lead == <<"x">>

\* the tokens of the documents the editor is driven through
Tokens == {TokDateOnly, TokBadDate, TokDateTime, TokEpoch}

\* a document holds at most MaxTokens tokens after its first character
MaxTokens == 2

\* the host shows at most MaxRanges visible ranges
MaxRanges == 2

\* the selection has at most MaxSel ranges
MaxSel == 1

SeqsUpTo(S, n) == UNION {[1 .. k -> S] : k \in 0 .. n}

\* view.state.doc as a sequence of chunks of text: Lead, then the tokens
Docs == {<<Lead>> \o ts : ts \in SeqsUpTo(Tokens, MaxTokens)}

\* the offset at which chunk k + 1 of doc starts (k = Len(doc): the length)
RECURSIVE ChunkStart(_, _)
ChunkStart(doc, k) == IF k = 0 THEN 0 ELSE ChunkStart(doc, k - 1) + Len(doc[k])

DocLen(doc) == ChunkStart(doc, Len(doc))

\* The offsets the host places range and selection ends at: the chunk
\* boundaries and the offset just inside the first token.
Marks(doc) ==
  {ChunkStart(doc, k) : k \in 0 .. Len(doc)} \cup
  (IF Len(doc) >= 2 THEN {ChunkStart(doc, 1) + 1} ELSE {})

\* ordered, disjoint, non-empty visible ranges [from, to)
IsVisibleRanges(rs) ==
  /\ \A k \in 1 .. Len(rs) : rs[k].from < rs[k].to
  /\ \A k \in 1 .. Len(rs) - 1 : rs[k].to <= rs[k + 1].from

\* the lists of at most n such ranges with ends in marks, all at or after lo
RECURSIVE RangeLists(_, _, _)
RangeLists(marks, lo, n) ==
  IF n = 0 THEN {<<>>}
  ELSE {<<>>} \cup
       UNION {{<<[from |-> a, to |-> b]>> \o rest :
                 rest \in RangeLists(marks, b, n - 1)} :
              <<a, b>> \in {ab \in marks \X marks : lo <= ab[1] /\ ab[1] < ab[2]}}

VisibleRangesOf(doc) == RangeLists(Marks(doc), 0, MaxRanges)

\* the sorted lists of at most n disjoint selection ranges (from <= to), at
\* least one, with ends in marks
RECURSIVE SelLists(_, _, _)
SelLists(marks, lo, n) ==
  IF n = 0 THEN {<<>>}
  ELSE {<<>>} \cup
       UNION {{<<[from |-> a, to |-> b]>> \o rest :
                 rest \in SelLists(marks, b + 1, n - 1)} :
              <<a, b>> \in {ab \in marks \X marks : lo <= ab[1] /\ ab[1] <= ab[2]}}

SelectionsOf(doc) == SelLists(Marks(doc), 0, MaxSel) \ {<<>>}

(***************************************************************************)
(* State                                                                   *)
(***************************************************************************)
VARIABLES
  view,                  \* the EditorView: [doc, visibleRanges, selection]
  decorations,           \* editorPlugin.decorations            (part_000)
  rfc3339Decorations,    \* rfc3339TimestampEditorPlugin.decorations (main.ts)
  timestampDecorations,  \* timestampEditorPlugin.decorations   (main.ts)
  lastIndex,             \* lastIndex of the three global regular expressions
  localeThrows,          \* the host: toLocaleString with options throws here
  drawn,                 \* the DOM the editor got from toDOM: [plugin, n, dom]
  codeElements,          \* the code elements of the rendered note, in order
  processed,             \* the plugins whose post processor has run on them
  thrown                 \* the exceptions that reached the host: [by, error]

editorVars == <<view, decorations, rfc3339Decorations, timestampDecorations, lastIndex>>

renderVars == <<localeThrows, drawn, codeElements, processed, thrown>>

vars == <<view, decorations, rfc3339Decorations, timestampDecorations, lastIndex,
          localeThrows, drawn, codeElements, processed, thrown>>

Regexes == {"editorRegex", "editorRfc3339Regex", "editorTimestampRegex"}

(***************************************************************************)
(* The view plugins: constructor and update                                *)
(***************************************************************************)
\* the test without the selection flag
mustRebuildUnlessSelection(update) == update.docChanged \/ update.viewportChanged

\* update.docChanged || update.viewportChanged || update.selectionSet
mustRebuild(update) == update.docChanged \/ update.viewportChanged \/ update.selectionSet

\* editorPlugin.update (part_000)
editorPluginUpdate(update, current, li) ==
  IF mustRebuild(update) THEN buildDecorations(update.view, li)
  ELSE [builder |-> current, lastIndex |-> li]

\* rfc3339TimestampEditorPlugin.update (main.ts)
rfc3339TimestampEditorPluginUpdate(update, current, li) ==
  IF update.docChanged \/ update.viewportChanged \/ update.selectionSet
  THEN buildRFC3339TimestampDecorations(update.view, li)
  ELSE [builder |-> current, lastIndex |-> li]

\* timestampEditorPlugin.update (main.ts)
timestampEditorPluginUpdate(update, current, li) ==
  IF update.docChanged \/ update.viewportChanged \/ update.selectionSet
  THEN buildTimestampDecorations(update.view, li)
  ELSE [builder |-> current, lastIndex |-> li]

\* the host delivers one ViewUpdate to the three plugins
Deliver(update) ==
  \E a \in {editorPluginUpdate(update, decorations, lastIndex["editorRegex"])},
     b \in {rfc3339TimestampEditorPluginUpdate(update, rfc3339Decorations,
                                               lastIndex["editorRfc3339Regex"])},
     c \in {timestampEditorPluginUpdate(update, timestampDecorations,
                                        lastIndex["editorTimestampRegex"])} :
      /\ view' = update.view
      /\ decorations' = a.builder
      /\ rfc3339Decorations' = b.builder
      /\ timestampDecorations' = c.builder
      /\ lastIndex' = [re \in Regexes |->
                         CASE re = "editorRegex" -> a.lastIndex
                           [] re = "editorRfc3339Regex" -> b.lastIndex
                           [] re = "editorTimestampRegex" -> c.lastIndex]
      /\ UNCHANGED renderVars

\* The plugins are constructed on a freshly opened document: all of it visible,
\* the cursor at its start, the regular expressions never used.
Opened(doc) ==
  /\ view = [doc |-> doc,
             visibleRanges |-> IF DocLen(doc) = 0 THEN <<>>
                               ELSE <<[from |-> 0, to |-> DocLen(doc)]>>,
             selection |-> <<[from |-> 0, to |-> 0]>>]
  /\ lastIndex = [re \in Regexes |-> 0]
  /\ decorations = buildDecorations(view, 0).builder
  /\ rfc3339Decorations = buildRFC3339TimestampDecorations(view, 0).builder
  /\ timestampDecorations = buildTimestampDecorations(view, 0).builder

\* The editor alone: nothing is drawn and no note is rendered for reading.
Init ==
  /\ \E doc \in Docs : Opened(doc)
  /\ localeThrows = FALSE
  /\ drawn = {}
  /\ codeElements = <<>>
  /\ processed = {}
  /\ thrown = {}

(***************************************************************************)
(* The host: edits, scrolling, selection changes                           *)
(***************************************************************************)
\* ChangeSet.mapPos for the replacement of [a, b) by n characters
mapPos(pos, a, b, n) ==
  IF pos <= a THEN pos ELSE IF pos >= b THEN pos - (b - a) + n ELSE a

mapRange(r, a, b, n) == [from |-> mapPos(r.from, a, b, n), to |-> mapPos(r.to, a, b, n)]

\* the visible ranges after an edit: the old ones mapped, empty ones dropped,
\* and one range over them all where they came to touch
mapVisibleRanges(rs, a, b, n, doc) ==
  LET mapped == [k \in 1 .. Len(rs) |-> mapRange(rs[k], a, b, n)]
      kept   == SelectSeq(mapped, LAMBDA r : r.from < r.to)
  IN  IF IsVisibleRanges(kept) THEN kept
      ELSE <<[from |-> kept[1].from, to |-> kept[Len(kept)].to]>>

\* the view after chunk k of the document is replaced by the chunks new
\* (<<>> deletes it; k = Len(doc) + 1 appends)
Edited(k, new) ==
  LET doc    == view.doc
      a      == ChunkStart(doc, k - 1)
      b      == IF k > Len(doc) THEN a ELSE ChunkStart(doc, k)
      n      == DocLen(new)
      newDoc == SubSeq(doc, 1, k - 1) \o new \o SubSeq(doc, k + 1, Len(doc))
  IN  [doc |-> newDoc,
       visibleRanges |-> mapVisibleRanges(view.visibleRanges, a, b, n, newDoc),
       selection |-> [i \in 1 .. Len(view.selection) |->
                        mapRange(view.selection[i], a, b, n)]]

\* document-changed: a chunk is replaced, deleted or appended
DocChanged ==
  \E k \in 2 .. Len(view.doc) + 1 :
    \E new \in {<<>>} \cup {<<c>> : c \in Tokens} :
       /\ k = Len(view.doc) + 1 => new # <<>> /\ Len(view.doc) < MaxTokens + 1
       /\ k <= Len(view.doc) => new # <<view.doc[k]>>
       /\ LET v == Edited(k, new)
          IN  Deliver([docChanged |-> TRUE,
                       viewportChanged |-> v.visibleRanges # view.visibleRanges,
                       selectionSet |-> FALSE,
                       view |-> v])

\* visible-window-changed: the host scrolls or folds
ViewportChanged ==
  \E rs \in VisibleRangesOf(view.doc) :
     /\ rs # view.visibleRanges
     /\ Deliver([docChanged |-> FALSE, viewportChanged |-> TRUE, selectionSet |-> FALSE,
                 view |-> [view EXCEPT !.visibleRanges = rs]])

\* selection-changed: the user moves the cursor or selects
SelectionSet ==
  \E sel \in SelectionsOf(view.doc) :
     /\ sel # view.selection
     /\ Deliver([docChanged |-> FALSE, viewportChanged |-> FALSE, selectionSet |-> TRUE,
                 view |-> [view EXCEPT !.selection = sel]])

\* any other update (focus, geometry): nothing the plugins read has changed
OtherUpdate ==
  \E v \in {view} :
     Deliver([docChanged |-> FALSE, viewportChanged |-> FALSE, selectionSet |-> FALSE,
              view |-> v])

Next == DocChanged \/ ViewportChanged \/ SelectionSet \/ OtherUpdate

Spec == Init /\ [][Next]_vars

(***************************************************************************)
(* The DOM the plugins build                                               *)
(***************************************************************************)
\* a string written in the source, as the data of a text node
Literal(chars) == [chars |-> chars]

\* document.createTextNode(data); data is a Literal or what the host formatted
Text(data) == [nodeName |-> "#text", data |-> data]

\* node.textContent; the relative-time element keeps its words out of the tree
RECURSIVE textContent(_)
textContent(node) ==
  IF node.nodeName = "#text"
  THEN IF "chars" \in DOMAIN node.data THEN node.data.chars ELSE <<"formatted">>
  ELSE IF node.nodeName = "relative-time" THEN <<>>
  ELSE Concat([k \in 1 .. Len(node.childNodes) |-> textContent(node.childNodes[k])])

\* the code element the Markdown renderer makes of an inline code span
CodeElement(chars) ==
  [nodeName |-> "code", classList |-> {},
   childNodes |-> IF chars = <<>> THEN <<>> ELSE <<Text(Literal(chars))>>]

\* the callback returns and leaves the element as it is
Untouched(codeElement) == [threw |-> "none", el |-> codeElement]

\* try { toLocaleString(undefined, titleFormat) } catch (e) { toString() }
titleOrFallback(date, titleFormat, hostThrows) ==
  IF toLocaleString(date, titleFormat, hostThrows).threw # "none" THEN toString(date)
  ELSE toLocaleString(date, titleFormat, hostThrows)

\* wrapperSpan holding styledSpan holding children (both RFC 3339 widgets)
rfc3339WrapperSpan(children) ==
  [nodeName |-> "span", classList |-> {"rfc3339-relative-time-widget-wrapper"},
   childNodes |->
     <<[nodeName |-> "span",
        classList |-> {"rfc3339-relative-time-styled-codeblock"},
        childNodes |-> children]>>]

(***************************************************************************)
(* RFC3339Widget and formatAbsoluteDateTime (src/unnamed/part_000)         *)
(***************************************************************************)
formatAbsoluteDateTime(date, isDateOnly, hostThrows) ==
  LET options == [year |-> "numeric", month |-> "short", day |-> "numeric",
                  hour |-> "numeric", minute |-> "2-digit", hour12 |-> FALSE]
  IN  IF isDateOnly THEN toLocaleDateString(date, options, hostThrows)
      ELSE toLocaleString(date, options, hostThrows)

\* titleFormatOptions of the widget and of the reading view
titleFormatOptions(isDateOnly) ==
  [weekday |-> "long", year |-> "numeric", month |-> "long", day |-> "numeric",
   hour |-> IF isDateOnly THEN "undefined" ELSE "numeric",
   minute |-> IF isDateOnly THEN "undefined" ELSE "2-digit",
   timeZoneName |-> IF isDateOnly THEN "undefined" ELSE "short",
   timeZone |-> IF isDateOnly THEN "UTC" ELSE "undefined"]

\* the relative-time element with datetime, format, threshold and title set
relativeTimeEl(date, title) ==
  [nodeName |-> "relative-time", classList |-> {}, datetime |-> toISOString(date),
   format |-> "relative", threshold |-> "P100Y", title |-> title]

\* absoluteTimeSpan, ' (', relativeTimeEl, ')' once absolute and title are
\* there; neither call of the host is inside a try
absoluteAndRelative(date, absolute, title) ==
  IF absolute.threw # "none" THEN [threw |-> absolute.threw]
  ELSE IF title.threw # "none" THEN [threw |-> title.threw]
  ELSE [threw |-> "none",
        childNodes |->
          <<[nodeName |-> "span", classList |-> {}, childNodes |-> <<Text(absolute)>>],
            Text(Literal(<<" ", "(">>)),
            relativeTimeEl(date, title),
            Text(Literal(<<")">>))>>]

\* the nodes both the widget and the reading view build of a valid date
rfcFragment(date, isDateOnly, hostThrows) ==
  absoluteAndRelative(date,
    formatAbsoluteDateTime(date, isDateOnly, hostThrows),
    toLocaleString(date, titleFormatOptions(isDateOnly), hostThrows))

\* new Date(processedDateString) in toDOM
RFC3339WidgetDate(widget) ==
  DateParse(IF widget.isDateOnly THEN widget.matchedDateString \o Midnight
            ELSE widget.matchedDateString)

\* toDOM returns the wrapper around the fragment, or the exception leaves it
RFC3339WidgetWrap(fragment) ==
  IF fragment.threw # "none" THEN [threw |-> fragment.threw]
  ELSE [threw |-> "none", dom |-> rfc3339WrapperSpan(fragment.childNodes)]

\* toDOM once date is constructed
RFC3339WidgetOfDate(widget, date, hostThrows) ==
  IF isNaN(date)
  THEN [threw |-> "none",
        dom |-> rfc3339WrapperSpan(<<Text(Literal(widget.matchedDateString))>>)]
  ELSE RFC3339WidgetWrap(rfcFragment(date, widget.isDateOnly, hostThrows))

\* RFC3339Widget.toDOM: [threw |-> "none", dom |-> the wrapper span], or the
\* exception that leaves it
RFC3339Widget_toDOM(widget, hostThrows) ==
  RFC3339WidgetOfDate(widget, RFC3339WidgetDate(widget), hostThrows)

\* the element with the class added and its content cleared, then the fragment
\* appended; an exception leaves it cleared
processAppend(cleared, fragment) ==
  IF fragment.threw # "none" THEN [threw |-> fragment.threw, el |-> cleared]
  ELSE [threw |-> "none", el |-> [cleared EXCEPT !.childNodes = fragment.childNodes]]

\* the callback once date is constructed
processDate(codeElement, isDateOnly, date, hostThrows) ==
  IF isNaN(date) THEN Untouched(codeElement)
  ELSE processAppend(
         [codeElement EXCEPT
            !.classList = @ \cup {"rfc3339-relative-time-styled-codeblock"},
            !.childNodes = <<>>],
         rfcFragment(date, isDateOnly, hostThrows))

\* the callback once textContent.match(readingViewRegex) has returned
processMatch(codeElement, match, hostThrows) ==
  IF match = NoMatch THEN Untouched(codeElement)
  ELSE processDate(codeElement, match.g2 = <<>>,
         DateParse(IF match.g2 = <<>> THEN match.g1 \o Midnight
                   ELSE match.g1 \o match.g2),
         hostThrows)

\* the callback once textContent is read
processText(codeElement, text, hostThrows) ==
  IF text = <<>> THEN Untouched(codeElement)
  ELSE processMatch(codeElement, readingViewRegexMatch(text), hostThrows)

\* the callback of the forEach of processTimestampsInReadingView: the element
\* as it leaves it, and the exception that ends it
processCodeElement(codeElement, hostThrows) ==
  processText(codeElement, textContent(codeElement), hostThrows)

(***************************************************************************)
(* RFC3339TimestampWidget and the reading view of the earlier plugin       *)
(***************************************************************************)
\* titleFormat of the earlier plugin
rfc3339TitleFormat ==
  [weekday |-> "long", year |-> "numeric", month |-> "long", day |-> "numeric",
   hour |-> "numeric", minute |-> "numeric", timeZoneName |-> "short"]

\* the relative-time element of the earlier plugin: datetime and title
rfc3339RelativeTimeEl(date, hostThrows) ==
  [nodeName |-> "relative-time", classList |-> {}, datetime |-> toISOString(date),
   title |-> titleOrFallback(date, rfc3339TitleFormat, hostThrows)]

\* toDOM once date is constructed
RFC3339TimestampWidgetOfDate(widget, date, hostThrows) ==
  [threw |-> "none",
   dom |-> rfc3339WrapperSpan(
             IF isNaN(date) THEN <<Text(Literal(widget.rfc3339String))>>
             ELSE <<rfc3339RelativeTimeEl(date, hostThrows)>>)]

RFC3339TimestampWidget_toDOM(widget, hostThrows) ==
  RFC3339TimestampWidgetOfDate(widget, DateParse(widget.rfc3339String), hostThrows)

\* the callback once date is constructed
rfc3339ProcessDate(codeElement, date, hostThrows) ==
  IF isNaN(date) THEN Untouched(codeElement)
  ELSE [threw |-> "none",
        el |-> [codeElement EXCEPT
                  !.classList = @ \cup {"rfc3339-relative-time-styled-codeblock"},
                  !.childNodes = <<rfc3339RelativeTimeEl(date, hostThrows)>>]]

\* the callback once textContent.match(readingViewRfc3339Regex) has returned
rfc3339ProcessMatch(codeElement, match, hostThrows) ==
  IF match = NoMatch THEN Untouched(codeElement)
  ELSE rfc3339ProcessDate(codeElement, DateParse(match.g1), hostThrows)

\* the callback once textContent is read
rfc3339ProcessText(codeElement, text, hostThrows) ==
  IF text = <<>> THEN Untouched(codeElement)
  ELSE rfc3339ProcessMatch(codeElement, readingViewRfc3339RegexMatch(text), hostThrows)

\* the callback of the forEach of the reading view of the earlier plugin
rfc3339ProcessCodeElement(codeElement, hostThrows) ==
  rfc3339ProcessText(codeElement, textContent(codeElement), hostThrows)

(***************************************************************************)
(* TimestampWidget and the reading view of the epoch-tag plugin            *)
(***************************************************************************)
\* titleFormat of the epoch-tag plugin
discordTitleFormat ==
  [weekday |-> "long", year |-> "numeric", month |-> "long", day |-> "numeric",
   hour |-> "numeric", minute |-> "numeric"]

\* the relative-time element of the epoch-tag plugin, given date.toISOString()
discordRelativeTimeEl(date, datetime, hostThrows) ==
  [nodeName |-> "relative-time", classList |-> {"discord-relative-time"},
   datetime |-> datetime,
   title |-> titleOrFallback(date, discordTitleFormat, hostThrows)]

\* toDOM once date.toISOString(), which stands outside the try, has run
TimestampWidgetOfISO(date, datetime, hostThrows) ==
  IF datetime.threw # "none" THEN [threw |-> datetime.threw]
  ELSE [threw |-> "none",
        dom |-> [nodeName |-> "span",
                 classList |-> {"discord-relative-time-widget-wrapper"},
                 childNodes |-> <<discordRelativeTimeEl(date, datetime, hostThrows)>>]]

\* toDOM once date is constructed
TimestampWidgetOfDate(date, hostThrows) ==
  TimestampWidgetOfISO(date, toISOString(date), hostThrows)

\* TimestampWidget.toDOM
TimestampWidget_toDOM(widget, hostThrows) ==
  TimestampWidgetOfDate(DateFromSeconds(widget.unixTimestamp), hostThrows)

\* the callback once date.toISOString(), which stands outside the try, has run
discordProcessISO(codeElement, date, datetime, hostThrows) ==
  IF datetime.threw # "none" THEN [threw |-> datetime.threw, el |-> codeElement]
  ELSE [threw |-> "none",
        el |-> [codeElement EXCEPT
                  !.childNodes = <<discordRelativeTimeEl(date, datetime, hostThrows)>>]]

\* the callback once date is constructed
discordProcessDate(codeElement, date, hostThrows) ==
  discordProcessISO(codeElement, date, toISOString(date), hostThrows)

\* the callback once textContent.match(readingViewTimestampRegex) has returned;
\* isNaN(unixTimestampSeconds) is false of every digit string
discordProcessMatch(codeElement, match, hostThrows) ==
  IF match = NoMatch THEN Untouched(codeElement)
  ELSE discordProcessDate(codeElement, DateFromSeconds(parseInt(match.g2)), hostThrows)

\* the callback once textContent is read
discordProcessText(codeElement, text, hostThrows) ==
  IF text = <<>> THEN Untouched(codeElement)
  ELSE discordProcessMatch(codeElement, readingViewTimestampRegexMatch(text), hostThrows)

\* the callback of the forEach of the reading view of the epoch-tag plugin
discordProcessCodeElement(codeElement, hostThrows) ==
  discordProcessText(codeElement, textContent(codeElement), hostThrows)

(***************************************************************************)
(* processTimestampsInReadingView of the three plugins                     *)
(***************************************************************************)
ReadingPlugins ==
  {"RFC3339RelativeTimePlugin", "RFC3339RelativeTimePlugin (main.ts)",
   "DiscordRelativeTimePlugin"}

\* the callback the plugin hands to codeElements.forEach
forEachBody(plugin, codeElement, hostThrows) ==
  CASE plugin = "RFC3339RelativeTimePlugin" ->
         processCodeElement(codeElement, hostThrows)
    [] plugin = "RFC3339RelativeTimePlugin (main.ts)" ->
         rfc3339ProcessCodeElement(codeElement, hostThrows)
    [] plugin = "DiscordRelativeTimePlugin" ->
         discordProcessCodeElement(codeElement, hostThrows)

\* codeElements.forEach from element k on: an exception in the callback ends
\* the loop and leaves the post processor
RECURSIVE forEachFrom(_, _, _, _)
RECURSIVE forEachNext(_, _, _, _, _)
forEachFrom(plugin, elements, k, hostThrows) ==
  IF k > Len(elements) THEN [threw |-> "none", elements |-> elements]
  ELSE forEachNext(plugin, elements, k,
                   forEachBody(plugin, elements[k], hostThrows), hostThrows)

\* the loop after the callback returned r for element k
forEachNext(plugin, elements, k, r, hostThrows) ==
  IF r.threw # "none"
  THEN [threw |-> r.threw, elements |-> [elements EXCEPT ![k] = r.el]]
  ELSE forEachFrom(plugin, [elements EXCEPT ![k] = r.el], k + 1, hostThrows)

\* processTimestampsInReadingView(element, context) of the named plugin
processTimestampsInReadingViewOf(plugin, elements, hostThrows) ==
  forEachFrom(plugin, elements, 1, hostThrows)

(***************************************************************************)
(* A note open in the editor and rendered for reading on one host          *)
(***************************************************************************)
\* BT<t:1700000000>BT : an epoch tag without a style flag
TokEpochPlain == <<Backtick, "<", "t", ":", "1", "7", "0", "0", "0", "0", "0", "0", "0", "0", ">", Backtick>>

\* BTp <t:0> sBT : an epoch tag with text before and after it
TokPrefixed == <<Backtick, "p", " ", "<", "t", ":", "0", ">", " ", "s", Backtick>>

\* BTBT : an inline code span without text
TokEmpty == <<Backtick, Backtick>>

\* the inline code spans a note is made of
SpanTokens == Tokens \cup {TokFarEpoch, TokEpochPlain, TokPrefixed, TokEmpty}

\* a note holds at most MaxSpans inline code spans
MaxSpans == 2

\* the text between the delimiters of a span
Inner(chunk) == SubSeq(chunk, 2, Len(chunk) - 1)

\* the code elements the Markdown renderer makes of the spans of a document
RenderedSpans(doc) == [i \in 1 .. Len(doc) - 1 |-> CodeElement(Inner(doc[i + 1]))]

\* The note is opened in the editor, where the three view plugins are
\* constructed, and rendered for reading; the post processors have not run.
InitRender ==
  \E note \in SeqsUpTo(SpanTokens, MaxSpans), hostThrows \in BOOLEAN :
     /\ Opened(<<Lead>> \o note)
     /\ localeThrows = hostThrows
     /\ drawn = {}
     /\ codeElements = RenderedSpans(<<Lead>> \o note)
     /\ processed = {}
     /\ thrown = {}

\* the editor draws decoration n of a plugin: toDOM of its widget gave r
Draws(plugin, n, by, r) ==
  /\ \A d \in drawn : ~(d.plugin = plugin /\ d.n = n)
  /\ drawn' = IF r.threw = "none"
              THEN drawn \cup {[plugin |-> plugin, n |-> n, dom |-> r.dom]}
              ELSE drawn
  /\ thrown' = IF r.threw = "none" THEN thrown
               ELSE thrown \cup {[by |-> by, error |-> r.threw]}
  /\ UNCHANGED <<editorVars, localeThrows, codeElements, processed>>

DrawRFC3339Widget ==
  \E n \in 1 .. Len(decorations) :
     Draws("editorPlugin", n, "RFC3339Widget.toDOM",
           RFC3339Widget_toDOM(decorations[n].widget, localeThrows))

DrawRFC3339TimestampWidget ==
  \E n \in 1 .. Len(rfc3339Decorations) :
     Draws("rfc3339TimestampEditorPlugin", n, "RFC3339TimestampWidget.toDOM",
           RFC3339TimestampWidget_toDOM(rfc3339Decorations[n].widget, localeThrows))

DrawTimestampWidget ==
  \E n \in 1 .. Len(timestampDecorations) :
     Draws("timestampEditorPlugin", n, "TimestampWidget.toDOM",
           TimestampWidget_toDOM(timestampDecorations[n].widget, localeThrows))

\* the host has run the Markdown post processor of a plugin over the note, once
\* per rendering: r is what it left
PostProcessed(plugin, r) ==
  /\ plugin \notin processed
  /\ codeElements' = r.elements
  /\ thrown' = IF r.threw = "none" THEN thrown
               ELSE thrown \cup {[by |-> plugin, error |-> r.threw]}
  /\ processed' = processed \cup {plugin}
  /\ UNCHANGED <<editorVars, localeThrows, drawn>>

processTimestampsInReadingView ==
  \E r \in {processTimestampsInReadingViewOf("RFC3339RelativeTimePlugin",
                                              codeElements, localeThrows)} :
     PostProcessed("RFC3339RelativeTimePlugin", r)

rfc3339ProcessTimestampsInReadingView ==
  \E r \in {processTimestampsInReadingViewOf("RFC3339RelativeTimePlugin (main.ts)",
                                              codeElements, localeThrows)} :
     PostProcessed("RFC3339RelativeTimePlugin (main.ts)", r)

discordProcessTimestampsInReadingView ==
  \E r \in {processTimestampsInReadingViewOf("DiscordRelativeTimePlugin",
                                              codeElements, localeThrows)} :
     PostProcessed("DiscordRelativeTimePlugin", r)

NextRender ==
  \/ DrawRFC3339Widget
  \/ DrawRFC3339TimestampWidget
  \/ DrawTimestampWidget
  \/ processTimestampsInReadingView
  \/ rfc3339ProcessTimestampsInReadingView
  \/ discordProcessTimestampsInReadingView

SpecRender == InitRender /\ [][NextRender]_vars

(***************************************************************************)
(* Vocabulary of the properties                                            *)
(***************************************************************************)
Plugins == {"editorPlugin", "rfc3339TimestampEditorPlugin", "timestampEditorPlugin"}

\* the two plugins of the RFC 3339 pipeline, the epoch-tag pipeline
RfcPlugins == {"editorPlugin", "rfc3339TimestampEditorPlugin"}

DecorationsOf(p) ==
  CASE p = "editorPlugin" -> decorations
    [] p = "rfc3339TimestampEditorPlugin" -> rfc3339Decorations
    [] p = "timestampEditorPlugin" -> timestampDecorations

RegexOf(p) ==
  CASE p = "editorPlugin" -> "editorRegex"
    [] p = "rfc3339TimestampEditorPlugin" -> "editorRfc3339Regex"
    [] p = "timestampEditorPlugin" -> "editorTimestampRegex"

ComputeDecorations(p, v, li) ==
  CASE p = "editorPlugin" -> buildDecorations(v, li)
    [] p = "rfc3339TimestampEditorPlugin" -> buildRFC3339TimestampDecorations(v, li)
    [] p = "timestampEditorPlugin" -> buildTimestampDecorations(v, li)

RangeIndexes == 1 .. Len(view.visibleRanges)

SliceOfRange(k) ==
  sliceString(view.doc, view.visibleRanges[k].from, view.visibleRanges[k].to)

\* the offsets in the slice of visible range k at which a token of plugin p
\* lies, all of it inside the slice
TokenOffsets(p, k) ==
  {i \in 0 .. Len(SliceOfRange(k)) - 1 :
     /\ SliceOfRange(k)[i + 1] = Backtick
     /\ RegexAt(RegexOf(p), SliceOfRange(k), i) # NoMatch}

TokenMatch(p, k, i) == RegexAt(RegexOf(p), SliceOfRange(k), i)

\* the span of that token in buffer offsets, delimiters included
TokenSpan(p, k, i) ==
  [from |-> view.visibleRanges[k].from + i,
   to   |-> view.visibleRanges[k].from + i + (TokenMatch(p, k, i).end - i)]

\* the instant a token of plugin p stands for (NaN when it stands for none)
InstantOf(p, m) ==
  CASE p = "editorPlugin" ->
         DateParse(IF m.g2 = <<>> THEN m.g1 \o Midnight ELSE m.g1 \o m.g2)
    [] p = "rfc3339TimestampEditorPlugin" -> DateParse(m.g1)
    [] p = "timestampEditorPlugin" -> DateFromSeconds(parseInt(m.g2))

\* some selection range [from, to] meets the closed interval [a, b]
SelectionMeets(a, b) ==
  \E n \in 1 .. Len(view.selection) :
     view.selection[n].from <= b /\ view.selection[n].to >= a

\* the instructions of plugin p that start at offset a
InstructionsAt(p, a) ==
  {n \in 1 .. Len(DecorationsOf(p)) : DecorationsOf(p)[n].from = a}

\* the instructions of plugin p whose span shares a character with [a, b)
InstructionsOver(p, a, b) ==
  {n \in 1 .. Len(DecorationsOf(p)) :
     DecorationsOf(p)[n].from < b /\ DecorationsOf(p)[n].to > a}

(***************************************************************************)
(* C1  Every pipeline: a token that a selection range meets (closed        *)
(* interval, so a bare cursor at either end counts) gets no instruction.   *)
(* The epoch-tag plugin never reads the selection and breaks this.         *)
(***************************************************************************)
C1_SelectionSuppressesInEveryPipeline ==
  \A p \in Plugins : \A k \in RangeIndexes : \A i \in TokenOffsets(p, k) :
     SelectionMeets(TokenSpan(p, k, i).from, TokenSpan(p, k, i).to)
       => InstructionsOver(p, TokenSpan(p, k, i).from, TokenSpan(p, k, i).to) = {}

(***************************************************************************)
(* C2  Every token that lies inside a visible range, stands for a valid    *)
(* instant and is met by no selection range has exactly one instruction,   *)
(* from range base + index in slice to that plus the length of the whole   *)
(* match, delimiters included; also after an invalid or suppressed token.  *)
(***************************************************************************)
C2_OneInstructionPerLiveToken ==
  \A p \in Plugins : \A k \in RangeIndexes : \A i \in TokenOffsets(p, k) :
     LET span == TokenSpan(p, k, i)
     IN  /\ ~isNaN(InstantOf(p, TokenMatch(p, k, i)))
         /\ ~SelectionMeets(span.from, span.to)
         => /\ Cardinality(InstructionsAt(p, span.from)) = 1
            /\ Cardinality(InstructionsOver(p, span.from, span.to)) = 1
            /\ \A n \in InstructionsAt(p, span.from) : DecorationsOf(p)[n].to = span.to

\* a live token of the RFC 3339 plugin decorated after an undecorated token of
\* the same slice, in a range that does not start at offset 0
C2_Witness ==
  \E k \in RangeIndexes : \E i, j \in TokenOffsets("editorPlugin", k) :
     /\ i < j
     /\ view.visibleRanges[k].from > 0
     /\ InstructionsAt("editorPlugin", TokenSpan("editorPlugin", k, i).from) = {}
     /\ ~SelectionMeets(TokenSpan("editorPlugin", k, j).from,
                        TokenSpan("editorPlugin", k, j).to)
     /\ InstructionsAt("editorPlugin", TokenSpan("editorPlugin", k, j).from) # {}

(***************************************************************************)
(* C3  After any sequence of host notifications every plugin exposes       *)
(* exactly the instructions computed from the current buffer, visible      *)
(* ranges and selection.                                                   *)
(***************************************************************************)
C3_DecorationsAreCurrent ==
  \A p \in Plugins : DecorationsOf(p) = ComputeDecorations(p, view, 0).builder

\* a selection change has changed what the RFC 3339 plugin exposes
C3_Witness ==
  /\ view.selection # <<[from |-> 0, to |-> 0]>>
  /\ decorations #
       buildDecorations([view EXCEPT !.selection = <<[from |-> 0, to |-> 0]>>], 0).builder

(***************************************************************************)
(* C5  The instructions of one call are in strictly increasing start       *)
(* order and do not overlap, inside a visible range and across ranges.     *)
(***************************************************************************)
C5_OrderedAndDisjoint ==
  \A p \in Plugins : \A n \in 1 .. Len(DecorationsOf(p)) - 1 :
     /\ DecorationsOf(p)[n].from < DecorationsOf(p)[n + 1].from
     /\ DecorationsOf(p)[n].to <= DecorationsOf(p)[n + 1].from

\* two visible ranges, an instruction in each
C5_Witness ==
  /\ Len(view.visibleRanges) = 2
  /\ \E a, b \in 1 .. Len(decorations) :
        /\ decorations[a].to <= view.visibleRanges[1].to
        /\ decorations[b].from >= view.visibleRanges[2].from

(***************************************************************************)
(* C6  The result of a call depends on the buffer, the visible ranges and  *)
(* the selection alone: wherever an earlier scan left the scan cursor      *)
(* (lastIndex) of the global expression, the call returns the same         *)
(* instructions; and every scan the plugins run leaves the cursor at 0.    *)
(***************************************************************************)
ScanCursors == Marks(view.doc) \cup {DocLen(view.doc) + 1}

C6_IndependentOfScanCursor ==
  /\ \A re \in Regexes : lastIndex[re] = 0
  /\ \A p \in Plugins : \A li \in ScanCursors :
        ComputeDecorations(p, view, li).builder = DecorationsOf(p)

\* the call scanned two visible ranges, each holding a token it decorated
C6_Witness ==
  /\ Len(view.visibleRanges) = 2
  /\ \E a, b \in 1 .. Len(decorations) :
        /\ decorations[a].to <= view.visibleRanges[1].to
        /\ decorations[b].from >= view.visibleRanges[2].from
        /\ decorations[b].from - view.visibleRanges[2].from
             < decorations[a].to - view.visibleRanges[1].from

(***************************************************************************)
(* Vocabulary of the properties of rendering                               *)
(***************************************************************************)
\* the Date a widget constructs in toDOM
WidgetDate(widget) ==
  CASE widget.type = "RFC3339Widget" -> RFC3339WidgetDate(widget)
    [] widget.type = "RFC3339TimestampWidget" -> DateParse(widget.rfc3339String)
    [] widget.type = "TimestampWidget" -> DateFromSeconds(widget.unixTimestamp)

\* date-only or date-time, as the widget of an instruction is tagged (the
\* widget of the earlier plugin carries no tag and stands for a date-time)
WidgetTag(widget) ==
  IF widget.type = "RFC3339Widget" /\ widget.isDateOnly THEN "date-only" ELSE "date-time"

\* the text of inline code span i of the note
SpanText(i) == Inner(view.doc[i + 1])

SpanIndexes == 1 .. Len(view.doc) - 1

\* the match of the whole text against the reading view expression of a plugin
ReadingMatch(plugin, text) ==
  CASE plugin = "RFC3339RelativeTimePlugin" -> readingViewRegexMatch(text)
    [] plugin = "RFC3339RelativeTimePlugin (main.ts)" -> readingViewRfc3339RegexMatch(text)
    [] plugin = "DiscordRelativeTimePlugin" -> readingViewTimestampRegexMatch(text)

\* the instant a fully matching text stands for
ReadingInstant(plugin, m) ==
  CASE plugin = "RFC3339RelativeTimePlugin" ->
         DateParse(IF m.g2 = <<>> THEN m.g1 \o Midnight ELSE m.g1 \o m.g2)
    [] plugin = "RFC3339RelativeTimePlugin (main.ts)" -> DateParse(m.g1)
    [] plugin = "DiscordRelativeTimePlugin" -> DateFromSeconds(parseInt(m.g2))

\* the whole text is a token of the plugin
FullyMatches(plugin, text) == text # <<>> /\ ReadingMatch(plugin, text) # NoMatch

\* the whole text is a token of the plugin that stands for a valid instant
Renders(plugin, text) ==
  /\ FullyMatches(plugin, text)
  /\ ~isNaN(ReadingInstant(plugin, ReadingMatch(plugin, text)))

(***************************************************************************)
(* C4  Both pipelines: a match whose timestamp is no valid instant gets no *)
(* instruction, so every instruction a plugin holds, and every widget the  *)
(* editor draws, stands for a valid instant.  The epoch-tag plugin tests   *)
(* the parsed number, not the Date, and decorates seconds past the last    *)
(* Date.                                                                   *)
(***************************************************************************)
C4_InvalidInstantNeverDecorated ==
  \A p \in Plugins : \A n \in 1 .. Len(DecorationsOf(p)) :
     ~isNaN(WidgetDate(DecorationsOf(p)[n].widget))

(***************************************************************************)
(* C7  Reading view, on a host whose formatting works: once the post       *)
(* processor of a plugin has run, every code element whose whole text is a *)
(* token of it with a valid instant holds the rendered fragment, and every *)
(* element whose text is no whole token of any plugin is as it was.  An    *)
(* exception in the callback of the epoch-tag plugin ends the forEach, and *)
(* the elements after it are never replaced.                               *)
(***************************************************************************)
C7_ReplacedIffWholeTextMatches ==
  ~localeThrows =>
    \A plugin \in processed : \A i \in 1 .. Len(codeElements) :
       /\ Renders(plugin, SpanText(i)) =>
            \E q \in processed :
               /\ Renders(q, SpanText(i))
               /\ codeElements[i] =
                    forEachBody(q, CodeElement(SpanText(i)), localeThrows).el
       /\ (\A q \in ReadingPlugins : ~FullyMatches(q, SpanText(i))) =>
            codeElements[i] = CodeElement(SpanText(i))

(***************************************************************************)
(* C8  No operation hands an exception to the host: not toDOM of a widget, *)
(* not a post processor.  TimestampWidget.toDOM and the epoch-tag post     *)
(* processor call toISOString on an invalid Date outside any try, and the  *)
(* RFC 3339 plugin of part_000 calls the formatting of the host outside    *)
(* any try.                                                                *)
(***************************************************************************)
C8_NoExceptionReachesTheHost == thrown = {}

(***************************************************************************)
(* C9  RFC 3339 pipeline: a token without a time part is matched, stands   *)
(* for midnight UTC of its date and is tagged date-only, a token with a    *)
(* time part is tagged date-time; a visible range that holds a date-only   *)
(* token and then a date-time token, no selection range meeting it, yields *)
(* exactly two instructions, date-only then date-time.  The expression of  *)
(* the earlier plugin requires the time part and matches no date-only      *)
(* token.                                                                  *)
(***************************************************************************)
C9_DateOnlyThenDateTime ==
  \A p \in RfcPlugins : \A k \in RangeIndexes :
     /\ \A i \in TokenOffsets("editorPlugin", k) :
           LET m    == TokenMatch("editorPlugin", k, i)
               span == TokenSpan("editorPlugin", k, i)
               date == InstantOf("editorPlugin", m)
           IN  /\ m.g2 = <<>> /\ ~isNaN(date) => date.ms = 0
               /\ ~isNaN(date) /\ ~SelectionMeets(span.from, span.to) =>
                    /\ Cardinality(InstructionsAt(p, span.from)) = 1
                    /\ \A n \in InstructionsAt(p, span.from) :
                          WidgetTag(DecorationsOf(p)[n].widget) =
                            IF m.g2 = <<>> THEN "date-only" ELSE "date-time"
     /\ /\ SliceOfRange(k) = TokDateOnly \o TokDateTime
        /\ ~SelectionMeets(view.visibleRanges[k].from, view.visibleRanges[k].to)
        => LET ns == InstructionsOver(p, view.visibleRanges[k].from,
                                      view.visibleRanges[k].to)
           IN  /\ Cardinality(ns) = 2
               /\ \E a, b \in ns :
                     /\ DecorationsOf(p)[a].to = DecorationsOf(p)[b].from
                     /\ WidgetTag(DecorationsOf(p)[a].widget) = "date-only"
                     /\ WidgetTag(DecorationsOf(p)[b].widget) = "date-time"

(***************************************************************************)
(* C10  Epoch-tag pipeline: the style flag of a tag changes nothing.  For  *)
(* every epoch tag of the note and every flag (or none) put in place of    *)
(* its own, the editor decorates the same tags and draws the same          *)
(* fragments and the reading view replaces the same elements by the same   *)
(* fragments; what the state holds is that rendering; a fragment is one    *)
(* relative-time element whose datetime is SECONDS * 1000 ms after the     *)
(* epoch.                                                                  *)
(***************************************************************************)
Flags == StyleFlag \cup {""}

\* <t:digits> or <t:digits:f>
EpochTag(digits, f) ==
  <<"<", "t", ":">> \o digits \o (IF f = "" THEN <<>> ELSE <<":", f>>) \o <<">">>

\* SECONDS of a text that is an epoch tag, <<>> of any other text
SecondsOf(text) ==
  LET digits == Slice(text, 3, 3 + DigitRun(text, 3))
  IN  IF digits # <<>> /\ \E f \in Flags : text = EpochTag(digits, f) THEN digits
      ELSE <<>>

\* the note with the style flag of span i replaced by f
NoteWithFlag(i, f) ==
  [view.doc EXCEPT ![i + 1] =
     <<Backtick>> \o EpochTag(SecondsOf(SpanText(i)), f) \o <<Backtick>>]

\* what the editor shows of a document, all of it visible: per instruction of
\* the epoch-tag plugin the seconds and what toDOM gives
EditorRendering(doc) ==
  LET b == buildTimestampDecorations(
             [doc |-> doc, visibleRanges |-> <<[from |-> 0, to |-> DocLen(doc)]>>,
              selection |-> view.selection], 0).builder
  IN  [n \in 1 .. Len(b) |->
         [seconds |-> b[n].widget.unixTimestamp,
          dom |-> TimestampWidget_toDOM(b[n].widget, localeThrows)]]

\* a code element as the reader sees it: its raw text, or what replaced it
Shown(codeElement) ==
  IF codeElement = CodeElement(textContent(codeElement)) THEN [raw |-> TRUE]
  ELSE [raw |-> FALSE, classList |-> codeElement.classList,
        childNodes |-> codeElement.childNodes]

\* what the reading view shows of a document after the epoch-tag post processor
StaticRendering(doc) ==
  LET r == processTimestampsInReadingViewOf("DiscordRelativeTimePlugin",
                                            RenderedSpans(doc), localeThrows)
  IN  [threw |-> r.threw,
       shown |-> [j \in 1 .. Len(r.elements) |-> Shown(r.elements[j])]]

\* toISOString of the instant SECONDS * 1000 ms after the epoch
ISOOfSeconds(digits) ==
  LET s == Num(digits, 0, Len(digits))
      c == CivilFromDays(s \div 86400)
  IN  [threw |-> "none", year |-> c.year, month |-> c.month, day |-> c.day,
       hour |-> (s % 86400) \div 3600, minute |-> (s % 3600) \div 60,
       second |-> s % 60, ms |-> 0]

C10_StyleFlagChangesNothing ==
  /\ \A i \in SpanIndexes : SecondsOf(SpanText(i)) # <<>> =>
        \A f \in Flags :
           /\ EditorRendering(NoteWithFlag(i, f)) = EditorRendering(view.doc)
           /\ StaticRendering(NoteWithFlag(i, f)) = StaticRendering(view.doc)
  /\ Len(timestampDecorations) = Len(EditorRendering(view.doc))
  /\ Len(timestampDecorations) =
       Cardinality({i \in SpanIndexes : SecondsOf(SpanText(i)) # <<>>})
  /\ \A d \in drawn : d.plugin = "timestampEditorPlugin" =>
        /\ EditorRendering(view.doc)[d.n].dom = [threw |-> "none", dom |-> d.dom]
        /\ Len(d.dom.childNodes) = 1
        /\ d.dom.childNodes[1].nodeName = "relative-time"
        /\ \E i \in SpanIndexes :
              /\ parseInt(SecondsOf(SpanText(i))) = EditorRendering(view.doc)[d.n].seconds
              /\ d.dom.childNodes[1].datetime = ISOOfSeconds(SecondsOf(SpanText(i)))
  /\ "DiscordRelativeTimePlugin" \in processed =>
        \A i \in SpanIndexes : SecondsOf(SpanText(i)) # <<>> =>
           /\ Shown(codeElements[i]) = StaticRendering(view.doc).shown[i]
           /\ ~Shown(codeElements[i]).raw =>
                /\ Len(codeElements[i].childNodes) = 1
                /\ codeElements[i].childNodes[1].nodeName = "relative-time"
                /\ codeElements[i].childNodes[1].datetime =
                     ISOOfSeconds(SecondsOf(SpanText(i)))

\* the tag <t:0:R> is drawn in the editor and replaced in the reading view, by
\* a fragment for 1970-01-01T00:00:00.000Z, beside the flagless <t:1700000000>
C10_Witness ==
  /\ Len(view.doc) = 3
  /\ SpanText(1) = Inner(TokEpoch)
  /\ SpanText(2) = Inner(TokEpochPlain)
  /\ "DiscordRelativeTimePlugin" \in processed
  /\ ~Shown(codeElements[1]).raw
  /\ ~Shown(codeElements[2]).raw
  /\ \E d \in drawn :
        /\ d.plugin = "timestampEditorPlugin"
        /\ d.n = 1
        /\ d.dom.childNodes[1].datetime =
             [threw |-> "none", year |-> 1970, month |-> 1, day |-> 1,
              hour |-> 0, minute |-> 0, second |-> 0, ms |-> 0]
  /\ \E d \in drawn :
        /\ d.plugin = "timestampEditorPlugin"
        /\ d.n = 2
        /\ d.dom.childNodes[1].datetime =
             [threw |-> "none", year |-> 2023, month |-> 11, day |-> 14,
              hour |-> 22, minute |-> 13, second |-> 20, ms |-> 0]

(***************************************************************************)
(* C11  Every instruction lies inside one visible range and is a token of  *)
(* the document that this range holds whole.  A token that straddles a     *)
(* boundary of a visible range (part of it inside a range, the rest        *)
(* outside or in another range) has no instruction, and no instruction     *)
(* covers it.  When a visible-window-changed update brings such a token    *)
(* whole into one range, no selection range meeting it and its instant     *)
(* valid, the token has an instruction after the update.                   *)
(***************************************************************************)
\* the offsets in the text at which a token of plugin p lies
DocTokensIn(p, text) ==
  {i \in 0 .. Len(text) - 1 :
     text[i + 1] = Backtick /\ RegexAt(RegexOf(p), text, i) # NoMatch}

\* the offsets in the document at which a token of plugin p lies
DocTokens(p) == DocTokensIn(p, DocText(view.doc))

DocTokenEnd(p, i) == RegexAt(RegexOf(p), DocText(view.doc), i).end

\* [a, b) lies inside one of the ranges rs
InsideOneRange(a, b, rs) ==
  \E k \in 1 .. Len(rs) : rs[k].from <= a /\ b <= rs[k].to

\* [a, b) shares a character with some range of rs and lies inside none
Straddles(a, b, rs) ==
  /\ ~InsideOneRange(a, b, rs)
  /\ \E k \in 1 .. Len(rs) : rs[k].from < b /\ rs[k].to > a

C11_InsideOneRange ==
  \A p \in Plugins :
     /\ \A n \in 1 .. Len(DecorationsOf(p)) :
           /\ InsideOneRange(DecorationsOf(p)[n].from, DecorationsOf(p)[n].to,
                             view.visibleRanges)
           /\ DecorationsOf(p)[n].from \in DocTokens(p)
           /\ DecorationsOf(p)[n].to = DocTokenEnd(p, DecorationsOf(p)[n].from)
     /\ \A i \in DocTokens(p) :
           Straddles(i, DocTokenEnd(p, i), view.visibleRanges) =>
              /\ InstructionsAt(p, i) = {}
              /\ \A n \in 1 .. Len(DecorationsOf(p)) :
                    ~(/\ DecorationsOf(p)[n].from <= i
                      /\ DecorationsOf(p)[n].to >= DocTokenEnd(p, i))

\* a step that moves the visible ranges so that a straddling token comes to
\* lie inside one range gives the token its instruction
C11_ShownOnceContained ==
  view'.doc = view.doc /\ view'.visibleRanges # view.visibleRanges =>
    \A text \in {DocText(view.doc)} : \A p \in Plugins : \A i \in DocTokensIn(p, text) :
      \A m \in {RegexAt(RegexOf(p), text, i)} :
         /\ Straddles(i, m.end, view.visibleRanges)
         /\ InsideOneRange(i, m.end, view'.visibleRanges)
         /\ ~\E s \in 1 .. Len(view'.selection) :
                view'.selection[s].from <= m.end /\ view'.selection[s].to >= i
         /\ ~isNaN(InstantOf(p, m))
         => \E n \in 1 .. Len(DecorationsOf(p)') :
               /\ DecorationsOf(p)'[n].from = i
               /\ DecorationsOf(p)'[n].to = m.end

\* C11: instructions lie inside one visible range, a straddling token has
\* none, and it gets one once a range holds it whole
C11_InstructionsLieInOneVisibleRange ==
  []C11_InsideOneRange /\ [][C11_ShownOnceContained]_vars

\* the visible range starts inside the first token, which has no instruction
\* in either pipeline, and holds the second token whole, which has one
C11_Witness ==
  /\ Len(view.doc) = 3
  /\ Len(view.visibleRanges) = 1
  /\ view.visibleRanges[1].from = ChunkStart(view.doc, 1) + 1
  /\ view.visibleRanges[1].to = DocLen(view.doc)
  /\ \E p \in {"editorPlugin", "timestampEditorPlugin"} :
        /\ ChunkStart(view.doc, 1) \in DocTokens(p)
        /\ ~isNaN(InstantOf(p, RegexAt(RegexOf(p), DocText(view.doc),
                                       ChunkStart(view.doc, 1))))
        /\ ~SelectionMeets(ChunkStart(view.doc, 1), ChunkStart(view.doc, 2))
        /\ InstructionsOver(p, ChunkStart(view.doc, 1), ChunkStart(view.doc, 2)) = {}
        /\ ChunkStart(view.doc, 2) \in DocTokens(p)
        /\ InstructionsAt(p, ChunkStart(view.doc, 2)) # {}

====
